---- MODULE Spec2Model ----
(***************************************************************************)
(* Model of main.py, the CryptoPanic -> ChatGPT -> Gemini -> Telegram      *)
(* worker: the seen-set store (redis or local file), the feed fetch with   *)
(* backoff, one cycle of process_once and the poll loop of main_loop.      *)
(***************************************************************************)
EXTENDS Integers, Sequences, FiniteSets, TLC

(***************************************************************************)
(* Bounds of the model.                                                    *)
(***************************************************************************)
\* the longest result list the feed API returns in the model
MaxResults == 3
\* MAX_FETCH_LIMIT is read from the environment (default 15); the model runs
\* with a small limit so that results[:limit] really truncates
MAX_FETCH_LIMIT == 2
\* the largest max_attempts a caller of fetch_news_with_backoff passes
MaxAttemptsBound == 10

(***************************************************************************)
(* Program constants.                                                      *)
(***************************************************************************)
POLL_SECONDS == 180
DefaultMaxAttempts == 6
InitialBackoff == 2
BackoffCeiling == 300
\* title[:120], txt[:800] and the length of the text the fallback summary
\* puts between title and url
CaptionMax == 120
SummaryMax == 800
ReadMoreLen == 16

Min(a, b) == IF a < b THEN a ELSE b

\* Python's s[:n] for 0 <= n
Take(s, n) == SubSeq(s, 1, Min(n, Len(s)))

SeqsUpTo(S, n) == UNION {[1..k -> S] : k \in 0..n}

(***************************************************************************)
(* Articles of the feed.  Only the fields deciding the identifier are      *)
(* kept; "" stands for an absent, null or empty field.                     *)
(***************************************************************************)
Ids == {"a", "b"}

Articles ==
    { [id |-> "a", uuid |-> "",  url |-> ""],
      [id |-> "",  uuid |-> "b", url |-> "a"],
      [id |-> "",  uuid |-> "",  url |-> "a"],
      [id |-> "",  uuid |-> "",  url |-> ""] }

ResultLists == SeqsUpTo(Articles, MaxResults)

\* nid = str(item.get("id") or item.get("uuid") or item.get("url") or "")
DeriveId_UrlFirst(item) ==
    IF item.url # "" THEN item.url
    ELSE IF item.id # "" THEN item.id
    ELSE item.uuid

DeriveId(item) ==
    IF item.id # "" THEN item.id
    ELSE IF item.uuid # "" THEN item.uuid
    ELSE item.url

(***************************************************************************)
(* time.sleep(n) raises ValueError for a negative n.                       *)
(***************************************************************************)
SleepRaises(n) == n < 0

(***************************************************************************)
(* Persistence: the seen-set store.                                        *)
(***************************************************************************)
\* the backend bound at import time: REDIS_URL set and the redis library
\* imported and redis.from_url not raising -> redis; REDIS_URL unset, or
\* from_url raising (REDIS_URL = None) -> local file; REDIS_URL set without
\* the library -> neither branch runs and is_seen/mark_seen stay undefined
SelectBackend(urlSet, libOk, fromUrlOk) ==
    IF urlSet /\ libOk
    THEN IF fromUrlOk THEN "redis" ELSE "file"
    ELSE IF ~urlSet THEN "file" ELSE "none"

\* the content of /tmp/seen_ids.json: a JSON list of ids, no file, or
\* something json.load / set() rejects
FileOf(S) == [state |-> "list", ids |-> S]
FileAbsent == [state |-> "absent", ids |-> {}]
FileCorrupt == [state |-> "corrupt", ids |-> {}]
FileStates == {FileAbsent, FileCorrupt} \cup {FileOf(S) : S \in SUBSET Ids}

\* SEEN = set(json.load(f)), or set() on any exception
LoadSeen(file) == IF file.state = "list" THEN file.ids ELSE {}

\* with open(DATA_FILE, "w") as f: json.dump(list(SEEN), f), under the three
\* outcomes of the write: done; open() raises (file untouched); the file is
\* truncated by open() and the dump raises
FileWriteOutcomes == {"ok", "open_fails", "dump_fails"}

WriteFile(file, content, w) ==
    IF w = "ok" THEN FileOf(content)
    ELSE IF w = "open_fails" THEN file
    ELSE FileCorrupt

\* file backend
IsSeenFile_Never(seen, id) == FALSE

IsSeenFile(seen, id) == id \in seen

MarkSeenFile_Replace(seen, file, id, w) ==
    [SEEN |-> {id}, file |-> WriteFile(file, {id}, w)]

MarkSeenFile_WriteFirst(seen, file, id, w) ==
    IF w = "ok"
    THEN [SEEN |-> seen \cup {id}, file |-> FileOf(seen \cup {id})]
    ELSE [SEEN |-> seen, file |-> WriteFile(file, seen, w)]

MarkSeenFile(seen, file, id, w) ==
    [SEEN |-> seen \cup {id}, file |-> WriteFile(file, seen \cup {id}, w)]

\* redis backend: SISMEMBER / SADD on the set SEEN_KEY; either command
\* raises when the server cannot be reached
RedisOutcomes == {"ok", "raises"}

IsSeenRedis(rset, id) == id \in rset

MarkSeenRedis(rset, id, o) == IF o = "ok" THEN rset \cup {id} ELSE rset

(***************************************************************************)
(* The feed API as fetch_news_with_backoff sees it.                        *)
(***************************************************************************)
\* the Retry-After header: absent, "", text int() rejects, or an integer
HeaderAbsent == [kind |-> "absent", val |-> 0]
HeaderEmpty == [kind |-> "empty", val |-> 0]
HeaderText == [kind |-> "text", val |-> 0]
RetryAfterInts == {-1, 0, 5, 400}
RetryAfterHeaders ==
    {HeaderAbsent, HeaderEmpty, HeaderText}
        \cup {[kind |-> "int", val |-> n] : n \in RetryAfterInts}

\* what one requests.get yields: an exception of the transport, or a response
\* with a status, a Retry-After header and a body that is not JSON
\* ("invalid"), a bare JSON array ("array") or an object with "results"
NoResp ==
    [kind |-> "none", status |-> 0, retry_after |-> HeaderAbsent,
     body |-> "invalid", results |-> << >>]
ExcResp ==
    [kind |-> "exc", status |-> 0, retry_after |-> HeaderAbsent,
     body |-> "invalid", results |-> << >>]
HttpResp(s, h, b, rs) ==
    [kind |-> "http", status |-> s, retry_after |-> h, body |-> b, results |-> rs]

FeedErrorStatuses == {304, 401, 404, 500, 503}

FeedResponses ==
    {ExcResp}
        \cup {HttpResp(429, h, "invalid", << >>) : h \in RetryAfterHeaders}
        \cup {HttpResp(s, HeaderAbsent, "invalid", << >>) : s \in FeedErrorStatuses}
        \cup {HttpResp(200, HeaderAbsent, "invalid", << >>)}
        \cup {HttpResp(200, HeaderAbsent, "object", rs) : rs \in ResultLists}
        \cup {HttpResp(200, HeaderAbsent, "array", rs) : rs \in SeqsUpTo(Articles, 1)}

\* r.raise_for_status() raises HTTPError for 4xx and 5xx
RaisesForStatus(status) == status >= 400 /\ status < 600

\* the wait of the 429 branch: int(retry_after) when the header is there,
\* non-empty and parses, the current backoff otherwise
RetryWait_Backoff(h, b) == b

RetryWait(h, b) ==
    IF h.kind = "int" THEN h.val ELSE b

\* backoff = min(300, backoff * 2)
NextBackoff_NoCap(b) == b * 2

NextBackoff(b) == Min(BackoffCeiling, b * 2)

\* the statuses the HTTPError handler retries
IsRetryableStatus_Every(status) == TRUE

IsRetryableStatus_Only429(status) == status = 429

IsRetryableStatus(status) ==
    status = 429 \/ (status >= 500 /\ status < 600)

\* one pass of the while body on the response resp with backoff b: sleep
\* `sleep` seconds, count the attempt and go round again, or return
Retry(n) == [act |-> "retry", sleep |-> n, results |-> << >>]
Return(rs) == [act |-> "return", sleep |-> 0, results |-> rs]

HandleResponse(resp, b, limit) ==
    IF resp.kind = "exc" THEN Retry(b)
    ELSE IF resp.status = 429
    THEN LET wait == RetryWait(resp.retry_after, b)
         IN  \* time.sleep(wait) raising lands in `except Exception`
             IF SleepRaises(wait) THEN Retry(b) ELSE Retry(wait)
    ELSE IF RaisesForStatus(resp.status)
    THEN IF IsRetryableStatus(resp.status) THEN Retry(b) ELSE Return(<< >>)
    ELSE IF resp.body = "invalid" THEN Retry(b)
    ELSE IF resp.results = << >> THEN Return(<< >>)
    ELSE Return(Take(resp.results, limit))

\* attempt += 1 on every retried pass
NextAttempt_Stuck(a, out) == a

NextAttempt(a, out) == IF out.act = "retry" THEN a + 1 ELSE a

(***************************************************************************)
(* The summarizer, the image generator and the chat API.                   *)
(***************************************************************************)
\* what openai.ChatCompletion.create yields: an exception, or a text that is
\* a JSON object, a JSON object whose "caption" cannot be sliced (null, a
\* number), JSON that is no object, prose around such objects, prose around
\* braces that do not parse, text without braces, or nothing but white space
SummarizerOutcomes ==
    {"call_raises", "json_object", "json_object_bad_caption", "json_non_object",
     "wrapped_object", "wrapped_object_bad_caption", "wrapped_garbage",
     "plain_text", "empty_text"}

\* the shape of the value ask_chatgpt_for_json returns
AskChatgptForJson(keySet, o) ==
    IF ~keySet THEN "fallback_title"
    ELSE IF o = "call_raises" THEN "fallback_title"
    ELSE IF o \in {"json_object", "wrapped_object"} THEN "dict"
    ELSE IF o \in {"json_object_bad_caption", "wrapped_object_bad_caption"}
    THEN "dict_bad_caption"
    ELSE IF o = "json_non_object" THEN "non_dict"
    ELSE "fallback_text"

\* j.get("summary", title); j.get("caption", title)[:120]; j.get("image_prompt", ...)
ExtractFieldsRaises(j) == j \in {"non_dict", "dict_bad_caption"}

\* lengths of an article's title and url, and of the text txt of the
\* summarizer once stripped: only white space strips to nothing
TitleLens == {0, 8, 130}
UrlLens == {0, 30}
TextLens(o) == IF o = "empty_text" THEN {0} ELSE {40, 900}

\* a JSON object as json.loads returns it: per key the length of its string,
\* or Absent; the image prompt absent, an object or null
Absent == 0 - 1
JsonObjects ==
    [summary : {Absent, 0, 40}, caption : {Absent, 40, 130},
     image_prompt : {"absent", "object", "null"}]

\* {"summary": f"{title} ... read more: {url}", "caption": title[:120],
\*  "image_prompt": {"scene": title}}
FallbackTitleDict(titleLen, urlLen) ==
    [summary |-> titleLen + ReadMoreLen + urlLen,
     caption |-> Min(titleLen, CaptionMax),
     image_prompt |-> "object"]

\* {"summary": txt[:800], "caption": title[:120], "image_prompt": {"scene": title}}
FallbackTextDict(titleLen, textLen) ==
    [summary |-> Min(textLen, SummaryMax),
     caption |-> Min(titleLen, CaptionMax),
     image_prompt |-> "object"]

\* the dict ask_chatgpt_for_json returns, by its shape; obj is what json.loads
\* made of the text
ChatgptJson(shape, titleLen, urlLen, textLen, obj) ==
    IF shape = "fallback_title" THEN FallbackTitleDict(titleLen, urlLen)
    ELSE IF shape = "fallback_text" THEN FallbackTextDict(titleLen, textLen)
    ELSE obj

\* summary = j.get("summary", title); caption = j.get("caption", title)[:120];
\* image_prompt = j.get("image_prompt", {"scene": title})
ExtractFields(j, titleLen) ==
    [summary |-> IF j.summary = Absent THEN titleLen ELSE j.summary,
     caption |-> Min(IF j.caption = Absent THEN titleLen ELSE j.caption, CaptionMax),
     image_prompt |-> IF j.image_prompt = "absent" THEN "object" ELSE j.image_prompt]

ImageOutcomes == {"call_raises", "inline_data", "data_uri", "no_image", "bad_shape"}

GenerateImageViaGemini(clientSet, o) ==
    IF ~clientSet THEN "None"
    ELSE IF o \in {"inline_data", "data_uri"} THEN "bytes"
    ELSE "None"

\* what requests.post yields: an exception of the transport, or a response
\* with a status and a body that is not JSON, a falsy JSON value ({}, null)
\* or a truthy one (Telegram's {"ok": true, ...})
NoTgResp == [kind |-> "none", status |-> 0, body |-> "invalid"]
TgExc == [kind |-> "exc", status |-> 0, body |-> "invalid"]
TgStatuses == {200, 304, 403, 500}
TgBodies == {"truthy", "falsy", "invalid"}
TgResponses ==
    {TgExc} \cup {[kind |-> "http", status |-> s, body |-> b] :
                     s \in TgStatuses, b \in TgBodies}

\* post_to_telegram makes its request only with both credentials set
PostCallsNetwork(tokenSet, chatSet) == tokenSet /\ chatSet

\* the value post_to_telegram returns: None, or r.json()
PostToTelegram(tokenSet, chatSet, resp) ==
    IF ~tokenSet \/ ~chatSet THEN "None"
    ELSE IF resp.kind = "exc" THEN "None"
    ELSE IF RaisesForStatus(resp.status) THEN "None"
    ELSE IF resp.body = "invalid" THEN "None"
    ELSE resp.body

\* `if res:` in process_once
Truthy(res) == res = "truthy"

\* `except Exception` of main_loop catches every exception a cycle raises
CycleExceptions == {"NameError", "AttributeError", "RedisError"}

CaughtByLoop_OnlyRedis(e) == e = "RedisError"

CaughtByLoop(e) == e \in CycleExceptions

\* time.sleep(POLL_SECONDS), whatever the cycle did
PollInterval(outcome) == POLL_SECONDS

(***************************************************************************)
(* State.                                                                  *)
(***************************************************************************)
VARIABLES
    \* configuration, fixed at import time
    backend,            \* "redis", "file" or "none" (is_seen/mark_seen undefined)
    CRYPTOPANIC_KEY,    \* TRUE when the variable is set and non-empty
    OPENAI_API_KEY,
    gemini_client,      \* TRUE when a client was built
    TELEGRAM_BOT_TOKEN,
    TELEGRAM_CHAT_ID,
    \* the seen-set
    SEEN,               \* the in-memory set of the file backend
    fileContent,        \* /tmp/seen_ids.json
    redisSet,           \* the redis set SEEN_KEY
    \* fetch_news_with_backoff
    fpc,                \* "idle", "loop" (top of the while) or "done"
    max_attempts,
    attempt,
    backoff,
    requests,           \* requests.get calls of this fetch
    lastResp,           \* what the last requests.get yielded (direct call)
    lastSleep,          \* seconds of the last time.sleep (direct call)
    nSleeps,            \* time.sleep calls of this fetch that returned
    result,             \* the list returned
    \* process_once and main_loop
    mpc,                \* main_loop: "call", "fetch", "items", "sleep"
    ipc,                \* inside the for body: "next", "summarize", "image", "publish", "mark"
    news_items,         \* the items not yet done with, the current one first
    posted,
    img_bytes,
    ev,                 \* what was done for the current (or last) article
    pubOk,              \* truthy results of post_to_telegram in this cycle
    cycleOutcome,       \* of the last call of process_once: "none", "running",
                        \* "returned" or "raised"
    cycleExc,           \* the exception that left it
    returned,           \* the value process_once returned
    lastPollSleep,      \* seconds of the last time.sleep(POLL_SECONDS)
    markedThis,         \* ids mark_seen stored during this cycle
    markedPrev,         \* ids mark_seen stored during the cycle before
    history,            \* per id: its last publish of this process failed in this
                        \* cycle ("failed") or in an earlier one ("failed_before"),
                        \* or a publish of it succeeded ("published")
    \* a direct caller of is_seen / mark_seen
    lastCall,           \* op, id, outcome of the store access, value returned,
                        \* and whether the id was in the set before
    \* a direct caller of the enrichment of one article
    enriched,           \* the response of the summarizer and what lines 343-346
                        \* made of it
    \* the import of the module
    startup             \* what the module level finds: REDIS_URL set, the redis
                        \* library imported, redis.from_url returning or raising

cfgVars ==
    <<backend, CRYPTOPANIC_KEY, OPENAI_API_KEY, gemini_client,
      TELEGRAM_BOT_TOKEN, TELEGRAM_CHAT_ID>>
storeVars == <<SEEN, fileContent, redisSet>>
fetchVars ==
    <<fpc, max_attempts, attempt, backoff, requests, lastResp, lastSleep,
      nSleeps, result>>
cycleVars ==
    <<mpc, ipc, news_items, posted, img_bytes, ev, pubOk, cycleOutcome,
      cycleExc, returned, lastPollSleep, markedThis, markedPrev, history>>
auxVars == <<lastCall, enriched, startup>>
vars == <<cfgVars, storeVars, fetchVars, cycleVars, auxVars>>

\* the seen-set of the backend in use
SeenSet ==
    IF backend = "file" THEN SEEN
    ELSE IF backend = "redis" THEN redisSet
    ELSE {}

NoEv ==
    [nid |-> "", summarizer |-> FALSE, image |-> FALSE, post |-> FALSE,
     net |-> "none", resp |-> NoTgResp, res |-> "unset", mark |-> FALSE,
     skipped |-> FALSE, raised |-> FALSE]

NoCall ==
    [op |-> "none", id |-> "", outcome |-> "ok", ret |-> FALSE, was |-> FALSE]

\* the module level has run
NoStartup == [REDIS_URL |-> FALSE, redis |-> FALSE, from_url |-> "ok"]

StartupInputs ==
    [REDIS_URL : BOOLEAN, redis : BOOLEAN, from_url : {"ok", "raises"}]

NoEnrich ==
    [op |-> "none", outcome |-> "plain_text", raised |-> FALSE,
     summary |-> 0, caption |-> 0, image_prompt |-> "object"]

(***************************************************************************)
(* Initial states.                                                         *)
(***************************************************************************)
\* module level of main.py: the environment is read and the backend bound
InitConfig ==
    /\ \E urlSet \in BOOLEAN, libOk \in BOOLEAN, fromUrlOk \in BOOLEAN :
           backend = SelectBackend(urlSet, libOk, fromUrlOk)
    /\ CRYPTOPANIC_KEY \in BOOLEAN
    /\ OPENAI_API_KEY \in BOOLEAN
    /\ gemini_client \in BOOLEAN
    /\ TELEGRAM_BOT_TOKEN \in BOOLEAN
    /\ TELEGRAM_CHAT_ID \in BOOLEAN

\* the file backend loads SEEN from whatever the file holds; the redis set
\* holds whatever earlier runs stored
InitStore ==
    /\ fileContent \in (IF backend = "file" THEN FileStates ELSE {FileAbsent})
    /\ SEEN = (IF backend = "file" THEN LoadSeen(fileContent) ELSE {})
    /\ redisSet \in (IF backend = "redis" THEN SUBSET Ids ELSE {{}})

FetchIdle ==
    /\ fpc = "idle"
    /\ attempt = 0
    /\ backoff = InitialBackoff
    /\ requests = 0
    /\ lastResp = NoResp
    /\ lastSleep = 0
    /\ nSleeps = 0
    /\ result = << >>

CycleIdle ==
    /\ ipc = "next"
    /\ news_items = << >>
    /\ posted = 0
    /\ img_bytes = "None"
    /\ ev = NoEv
    /\ pubOk = 0
    /\ cycleOutcome = "none"
    /\ cycleExc = "none"
    /\ returned = 0
    /\ lastPollSleep = 0
    /\ markedThis = {}
    /\ markedPrev = {}
    /\ history = [id \in Ids |-> "none"]

Init ==
    /\ InitConfig
    /\ InitStore
    /\ FetchIdle
    /\ max_attempts = DefaultMaxAttempts
    /\ CycleIdle
    /\ mpc = "call"
    /\ lastCall = NoCall
    /\ enriched = NoEnrich
    /\ startup = NoStartup

(***************************************************************************)
(* fetch_news_with_backoff.                                                *)
(***************************************************************************)
\* the caller: process_once inside main_loop (mpc = "fetch"), or a direct
\* caller that keeps the returned list (mpc = "fetch_only")
\*
\* process_once gets the list: `if not news_items: return 0`, else posted = 0
\* and the for loop starts; the locals of the fetch are gone
ProcessOnceGets(rs) ==
    /\ news_items' = rs
    /\ posted' = 0
    /\ IF rs = << >>
       THEN /\ mpc' = "sleep"
            /\ cycleOutcome' = "returned"
            /\ returned' = 0
       ELSE /\ mpc' = "items"
            /\ UNCHANGED <<cycleOutcome, returned>>
    /\ fpc' = "idle"
    /\ attempt' = 0
    /\ backoff' = InitialBackoff
    /\ requests' = 0
    /\ lastResp' = NoResp
    /\ lastSleep' = 0
    /\ nSleeps' = 0
    /\ result' = << >>

\* entry: no key -> return [] at once; else attempt = 0, backoff = 2
FetchStart ==
    /\ mpc = "fetch_only"
    /\ fpc = "idle"
    /\ attempt' = 0
    /\ backoff' = InitialBackoff
    /\ requests' = 0
    /\ lastResp' = NoResp
    /\ lastSleep' = 0
    /\ nSleeps' = 0
    /\ result' = << >>
    /\ fpc' = (IF CRYPTOPANIC_KEY THEN "loop" ELSE "done")
    /\ UNCHANGED <<max_attempts, cfgVars, storeVars, cycleVars, auxVars>>

\* one pass of the while body: one requests.get and what follows from it
FetchAttempt ==
    /\ fpc = "loop"
    /\ attempt < max_attempts
    /\ \E resp \in FeedResponses :
           LET out == HandleResponse(resp, backoff, MAX_FETCH_LIMIT)
           IN  IF out.act = "retry"
               THEN /\ requests' = requests + 1
                    /\ attempt' = NextAttempt(attempt, out)
                    /\ nSleeps' = nSleeps + 1
                    /\ backoff' = NextBackoff(backoff)
                    \* the response and the sleep are kept for the properties
                    \* of a direct call only
                    /\ lastResp' = (IF mpc = "fetch" THEN lastResp ELSE resp)
                    /\ lastSleep' = (IF mpc = "fetch" THEN lastSleep ELSE out.sleep)
                    /\ UNCHANGED <<fpc, result, cycleVars>>
               ELSE IF mpc = "fetch"
               THEN /\ ProcessOnceGets(out.results)
                    /\ UNCHANGED <<ipc, img_bytes, ev, pubOk, cycleExc,
                                   lastPollSleep, markedThis, markedPrev, history>>
               ELSE /\ requests' = requests + 1
                    /\ lastResp' = resp
                    /\ attempt' = NextAttempt(attempt, out)
                    /\ fpc' = "done"
                    /\ result' = out.results
                    /\ UNCHANGED <<lastSleep, nSleeps, backoff, cycleVars>>
    /\ UNCHANGED <<max_attempts, cfgVars, storeVars, auxVars>>

\* the while condition fails: log and return []
FetchGiveUp ==
    /\ fpc = "loop"
    /\ attempt >= max_attempts
    /\ IF mpc = "fetch"
       THEN /\ ProcessOnceGets(<< >>)
            /\ UNCHANGED <<ipc, img_bytes, ev, pubOk, cycleExc,
                           lastPollSleep, markedThis, markedPrev, history>>
       ELSE /\ fpc' = "done"
            /\ result' = << >>
            /\ UNCHANGED <<attempt, backoff, requests, lastResp, lastSleep,
                           nSleeps, cycleVars>>
    /\ UNCHANGED <<max_attempts, cfgVars, storeVars, auxVars>>

(***************************************************************************)
(* is_seen and mark_seen as bound by the backend.                          *)
(***************************************************************************)
IsSeen(id) ==
    IF backend = "file" THEN IsSeenFile(SEEN, id) ELSE IsSeenRedis(redisSet, id)

\* the outcomes of the store access behind one call
IsSeenOutcomes == IF backend = "redis" THEN RedisOutcomes ELSE {"ok"}
MarkSeenOutcomes == IF backend = "redis" THEN RedisOutcomes ELSE FileWriteOutcomes

\* the exception of the file write is caught in mark_seen, that of redis is not
StoreRaises(o) == backend = "redis" /\ o = "raises"

MarkSeenUpdate(id, o) ==
    IF backend = "file"
    THEN LET m == MarkSeenFile(SEEN, fileContent, id, o)
         IN  /\ SEEN' = m.SEEN
             /\ fileContent' = m.file
             /\ UNCHANGED redisSet
    ELSE /\ redisSet' = MarkSeenRedis(redisSet, id, o)
         /\ UNCHANGED <<SEEN, fileContent>>

(***************************************************************************)
(* process_once.                                                           *)
(***************************************************************************)
\* an exception leaves process_once: the rest of the batch is not visited
Raise(e) ==
    /\ mpc' = "sleep"
    /\ cycleOutcome' = "raised"
    /\ cycleExc' = e

\* main_loop calls process_once, which calls fetch_news_with_backoff: without
\* the key the fetch returns [] at once, else attempt = 0, backoff = 2
StartCycle ==
    /\ mpc = "call"
    /\ max_attempts' = DefaultMaxAttempts
    /\ markedPrev' = markedThis
    /\ markedThis' = {}
    /\ history' = [id \in Ids |-> IF history[id] = "failed" THEN "failed_before"
                                  ELSE history[id]]
    /\ IF CRYPTOPANIC_KEY
       THEN /\ mpc' = "fetch"
            /\ fpc' = "loop"
            /\ cycleOutcome' = "running"
            /\ attempt' = 0
            /\ backoff' = InitialBackoff
            /\ requests' = 0
            /\ nSleeps' = 0
            /\ UNCHANGED <<lastResp, lastSleep, result, news_items, posted,
                           returned>>
       ELSE ProcessOnceGets(<< >>)
    /\ cycleExc' = "none"
    /\ UNCHANGED <<ipc, img_bytes, ev, pubOk, lastPollSleep>>
    /\ UNCHANGED <<cfgVars, storeVars, auxVars>>

\* top of the for body: the identifier and the two `continue`s
NextArticle ==
    /\ mpc = "items"
    /\ ipc = "next"
    /\ news_items # << >>
    /\ LET nid == DeriveId(Head(news_items))
           e0 == [NoEv EXCEPT !.nid = nid]
       IN  \E o \in IsSeenOutcomes :
               IF nid = ""
               THEN /\ news_items' = Tail(news_items)
                    /\ ev' = [e0 EXCEPT !.skipped = TRUE]
                    /\ UNCHANGED <<mpc, ipc, cycleOutcome, cycleExc>>
               ELSE IF backend = "none"
               THEN /\ Raise("NameError")
                    /\ ev' = [e0 EXCEPT !.raised = TRUE]
                    /\ UNCHANGED <<ipc, news_items>>
               ELSE IF StoreRaises(o)
               THEN /\ Raise("RedisError")
                    /\ ev' = [e0 EXCEPT !.raised = TRUE]
                    /\ UNCHANGED <<ipc, news_items>>
               ELSE IF IsSeen(nid)
               THEN /\ news_items' = Tail(news_items)
                    /\ ev' = [e0 EXCEPT !.skipped = TRUE]
                    /\ UNCHANGED <<mpc, ipc, cycleOutcome, cycleExc>>
               ELSE /\ ipc' = "summarize"
                    /\ ev' = e0
                    /\ UNCHANGED <<mpc, news_items, cycleOutcome, cycleExc>>
    /\ UNCHANGED <<posted, img_bytes, pubOk, returned, lastPollSleep,
                   markedThis, markedPrev, history>>
    /\ UNCHANGED <<cfgVars, storeVars, fetchVars, auxVars>>

\* j = ask_chatgpt_for_json(...); summary, caption, image_prompt from j
Summarize ==
    /\ mpc = "items"
    /\ ipc = "summarize"
    /\ \E o \in SummarizerOutcomes :
           LET j == AskChatgptForJson(OPENAI_API_KEY, o)
           IN  IF ExtractFieldsRaises(j)
               THEN /\ Raise("AttributeError")
                    /\ ev' = [ev EXCEPT !.summarizer = OPENAI_API_KEY,
                                        !.raised = TRUE]
                    /\ UNCHANGED ipc
               ELSE /\ ipc' = "image"
                    /\ ev' = [ev EXCEPT !.summarizer = OPENAI_API_KEY]
                    /\ UNCHANGED <<mpc, cycleOutcome, cycleExc>>
    /\ UNCHANGED <<news_items, posted, img_bytes, pubOk, returned,
                   lastPollSleep, markedThis, markedPrev, history>>
    /\ UNCHANGED <<cfgVars, storeVars, fetchVars, auxVars>>

\* img_bytes = generate_image_via_gemini(image_prompt), guarded
GenerateImage ==
    /\ mpc = "items"
    /\ ipc = "image"
    /\ \E o \in ImageOutcomes :
           img_bytes' = GenerateImageViaGemini(gemini_client, o)
    /\ ev' = [ev EXCEPT !.image = gemini_client]
    /\ ipc' = "publish"
    /\ UNCHANGED <<mpc, news_items, posted, pubOk, cycleOutcome, cycleExc,
                   returned, lastPollSleep, markedThis, markedPrev, history>>
    /\ UNCHANGED <<cfgVars, storeVars, fetchVars, auxVars>>

\* res = post_to_telegram(img_bytes, tg_caption); the else branch of `if res:`
Publish ==
    /\ mpc = "items"
    /\ ipc = "publish"
    /\ LET calls == PostCallsNetwork(TELEGRAM_BOT_TOKEN, TELEGRAM_CHAT_ID)
       IN  \E resp \in (IF calls THEN TgResponses ELSE {NoTgResp}) :
               LET res == PostToTelegram(TELEGRAM_BOT_TOKEN, TELEGRAM_CHAT_ID, resp)
               IN  /\ ev' = [ev EXCEPT
                               !.post = TRUE,
                               !.net = IF ~calls THEN "none"
                                       ELSE IF img_bytes = "bytes" THEN "sendPhoto"
                                       ELSE "sendMessage",
                               !.resp = resp,
                               !.res = res]
                   /\ IF Truthy(res)
                      THEN /\ ipc' = "mark"
                           /\ pubOk' = pubOk + 1
                           /\ history' = [history EXCEPT ![ev.nid] = "published"]
                           /\ UNCHANGED news_items
                      ELSE /\ ipc' = "next"
                           /\ news_items' = Tail(news_items)
                           /\ history' = [history EXCEPT ![ev.nid] =
                                             IF @ = "published" THEN @ ELSE "failed"]
                           /\ UNCHANGED pubOk
    /\ UNCHANGED <<mpc, posted, img_bytes, cycleOutcome, cycleExc, returned,
                   lastPollSleep, markedThis, markedPrev>>
    /\ UNCHANGED <<cfgVars, storeVars, fetchVars, auxVars>>

\* the then branch of `if res:`: mark_seen(nid); posted += 1; time.sleep(1.2)
MarkSeen ==
    /\ mpc = "items"
    /\ ipc = "mark"
    /\ \E o \in MarkSeenOutcomes :
           /\ MarkSeenUpdate(ev.nid, o)
           /\ IF StoreRaises(o)
              THEN /\ Raise("RedisError")
                   /\ ev' = [ev EXCEPT !.mark = TRUE, !.raised = TRUE]
                   /\ UNCHANGED <<ipc, news_items, posted, markedThis>>
              ELSE /\ ev' = [ev EXCEPT !.mark = TRUE]
                   /\ posted' = posted + 1
                   /\ markedThis' = markedThis \cup {ev.nid}
                   /\ news_items' = Tail(news_items)
                   /\ ipc' = "next"
                   /\ UNCHANGED <<mpc, cycleOutcome, cycleExc>>
    /\ UNCHANGED <<img_bytes, pubOk, returned, lastPollSleep, markedPrev, history>>
    /\ UNCHANGED <<cfgVars, fetchVars, auxVars>>

\* the for loop is over: log and return posted
EndCycle ==
    /\ mpc = "items"
    /\ ipc = "next"
    /\ news_items = << >>
    /\ mpc' = "sleep"
    /\ cycleOutcome' = "returned"
    /\ returned' = posted
    /\ UNCHANGED <<ipc, news_items, posted, img_bytes, ev, pubOk, cycleExc,
                   lastPollSleep, markedThis, markedPrev, history>>
    /\ UNCHANGED <<cfgVars, storeVars, fetchVars, auxVars>>

(***************************************************************************)
(* main_loop.                                                              *)
(***************************************************************************)
\* process_once returned, or its exception was caught and logged:
\* time.sleep(POLL_SECONDS), then round again
PollSleep ==
    /\ mpc = "sleep"
    /\ cycleOutcome = "returned" \/ CaughtByLoop(cycleExc)
    /\ lastPollSleep' = PollInterval(cycleOutcome)
    /\ mpc' = "call"
    \* the locals of the cycle are gone
    /\ ipc' = "next"
    /\ news_items' = << >>
    /\ posted' = 0
    /\ img_bytes' = "None"
    /\ ev' = NoEv
    /\ pubOk' = 0
    /\ returned' = 0
    /\ UNCHANGED <<cycleOutcome, cycleExc, markedThis, markedPrev, history>>
    /\ UNCHANGED <<cfgVars, storeVars, fetchVars, auxVars>>

Next ==
    \/ StartCycle
    \/ FetchAttempt
    \/ FetchGiveUp
    \/ NextArticle
    \/ Summarize
    \/ GenerateImage
    \/ Publish
    \/ MarkSeen
    \/ EndCycle
    \/ PollSleep

Spec == Init /\ [][Next]_vars

\* the worker is one sequential thread whose calls all return (timeouts, bounded
\* retries), so a step that can be taken is taken
FairSpec == Spec /\ WF_vars(Next)

(***************************************************************************)
(* fetch_news_with_backoff on its own, for every max_attempts.             *)
(***************************************************************************)
InitFetch ==
    /\ backend = "file"
    /\ CRYPTOPANIC_KEY \in BOOLEAN
    /\ OPENAI_API_KEY = TRUE
    /\ gemini_client = TRUE
    /\ TELEGRAM_BOT_TOKEN = TRUE
    /\ TELEGRAM_CHAT_ID = TRUE
    /\ SEEN = {}
    /\ fileContent = FileAbsent
    /\ redisSet = {}
    /\ FetchIdle
    /\ max_attempts \in 0..MaxAttemptsBound
    /\ CycleIdle
    /\ mpc = "fetch_only"
    /\ lastCall = NoCall
    /\ enriched = NoEnrich
    /\ startup = NoStartup

NextFetch ==
    \/ FetchStart
    \/ FetchAttempt
    \/ FetchGiveUp

SpecFetch == InitFetch /\ [][NextFetch]_vars

\* a call runs on: requests.get returns within its timeout and time.sleep returns
FairSpecFetch == SpecFetch /\ WF_vars(NextFetch)

(***************************************************************************)
(* is_seen and mark_seen under a caller that calls them in any order.      *)
(***************************************************************************)
InitSeenStore ==
    /\ backend \in {"file", "redis"}
    /\ CRYPTOPANIC_KEY = TRUE
    /\ OPENAI_API_KEY = TRUE
    /\ gemini_client = TRUE
    /\ TELEGRAM_BOT_TOKEN = TRUE
    /\ TELEGRAM_CHAT_ID = TRUE
    /\ InitStore
    /\ FetchIdle
    /\ max_attempts = DefaultMaxAttempts
    /\ CycleIdle
    /\ mpc = "store"
    /\ lastCall = NoCall
    /\ enriched = NoEnrich
    /\ startup = NoStartup

CallIsSeen ==
    /\ mpc = "store"
    /\ \E id \in Ids, o \in IsSeenOutcomes :
           lastCall' = [op |-> "is_seen", id |-> id, outcome |-> o,
                        ret |-> (~StoreRaises(o) /\ IsSeen(id)),
                        was |-> id \in SeenSet]
    /\ UNCHANGED <<cfgVars, storeVars, fetchVars, cycleVars, enriched, startup>>

CallMarkSeen ==
    /\ mpc = "store"
    /\ \E id \in Ids, o \in MarkSeenOutcomes :
           /\ MarkSeenUpdate(id, o)
           /\ lastCall' = [op |-> "mark_seen", id |-> id, outcome |-> o,
                           ret |-> FALSE, was |-> id \in SeenSet]
    /\ UNCHANGED <<cfgVars, fetchVars, cycleVars, enriched, startup>>

NextSeenStore ==
    \/ CallIsSeen
    \/ CallMarkSeen

SpecSeenStore == InitSeenStore /\ [][NextSeenStore]_vars

(***************************************************************************)
(* The process is terminated and started again.                            *)
(***************************************************************************)
\* the module level runs again in the same environment: the file backend
\* loads SEEN from whatever /tmp/seen_ids.json holds by then (a write that
\* failed, or that the termination cut short after open() truncated the file,
\* is the outcome "open_fails" or "dump_fails" of the mark_seen before); the
\* redis set is not touched
Restart ==
    /\ mpc = "store"
    /\ SEEN' = (IF backend = "file" THEN LoadSeen(fileContent) ELSE SEEN)
    /\ lastCall' = [op |-> "restart", id |-> "", outcome |-> "ok",
                    ret |-> FALSE, was |-> FALSE]
    /\ UNCHANGED <<fileContent, redisSet, cfgVars, fetchVars, cycleVars, enriched, startup>>

NextRestart ==
    \/ CallIsSeen
    \/ CallMarkSeen
    \/ Restart

SpecRestart == InitSeenStore /\ [][NextRestart]_vars

(***************************************************************************)
(* The enrichment of one article, for every article and every response.    *)
(***************************************************************************)
InitEnrich ==
    /\ backend = "file"
    /\ CRYPTOPANIC_KEY = TRUE
    /\ OPENAI_API_KEY \in BOOLEAN
    /\ gemini_client = TRUE
    /\ TELEGRAM_BOT_TOKEN = TRUE
    /\ TELEGRAM_CHAT_ID = TRUE
    /\ SEEN = {}
    /\ fileContent = FileAbsent
    /\ redisSet = {}
    /\ FetchIdle
    /\ max_attempts = DefaultMaxAttempts
    /\ CycleIdle
    /\ mpc = "enrich"
    /\ lastCall = NoCall
    /\ enriched = NoEnrich
    /\ startup = NoStartup

\* j = ask_chatgpt_for_json(title, url, excerpt) and the three j.get of
\* process_once
Enrich ==
    /\ mpc = "enrich"
    /\ \E o \in SummarizerOutcomes, titleLen \in TitleLens, urlLen \in UrlLens,
          obj \in JsonObjects :
           \E textLen \in TextLens(o) :
               LET shape == AskChatgptForJson(OPENAI_API_KEY, o)
                   j == ChatgptJson(shape, titleLen, urlLen, textLen, obj)
                   f == ExtractFields(j, titleLen)
               IN  enriched' =
                       IF ExtractFieldsRaises(shape)
                       THEN [NoEnrich EXCEPT !.op = "enrich", !.outcome = o,
                                             !.raised = TRUE]
                       ELSE [op |-> "enrich", outcome |-> o, raised |-> FALSE,
                             summary |-> f.summary, caption |-> f.caption,
                             image_prompt |-> f.image_prompt]
    /\ UNCHANGED <<cfgVars, storeVars, fetchVars, cycleVars, lastCall, startup>>

NextEnrich == Enrich

SpecEnrich == InitEnrich /\ [][NextEnrich]_vars

(***************************************************************************)
(* The module level: the backend of the seen-set is bound.                 *)
(***************************************************************************)
InitStartup ==
    /\ backend = "unbound"
    /\ startup \in StartupInputs
    /\ CRYPTOPANIC_KEY \in BOOLEAN
    /\ OPENAI_API_KEY \in BOOLEAN
    /\ gemini_client \in BOOLEAN
    /\ TELEGRAM_BOT_TOKEN \in BOOLEAN
    /\ TELEGRAM_CHAT_ID \in BOOLEAN
    /\ SEEN = {}
    /\ fileContent = FileAbsent
    /\ redisSet = {}
    /\ FetchIdle
    /\ max_attempts = DefaultMaxAttempts
    /\ CycleIdle
    /\ mpc = "import"
    /\ lastCall = NoCall
    /\ enriched = NoEnrich

\* `if REDIS_URL and redis:` binds is_seen/mark_seen to redis unless from_url
\* raises, which sets REDIS_URL = None; `if not REDIS_URL:` loads SEEN from the
\* file and binds them to it
Startup ==
    /\ mpc = "import"
    /\ backend' = SelectBackend(startup.REDIS_URL, startup.redis,
                                startup.from_url = "ok")
    /\ fileContent' \in (IF backend' = "file" THEN FileStates ELSE {FileAbsent})
    /\ SEEN' = (IF backend' = "file" THEN LoadSeen(fileContent') ELSE {})
    /\ redisSet' \in (IF backend' = "redis" THEN SUBSET Ids ELSE {{}})
    /\ startup' = NoStartup
    /\ mpc' = "call"
    /\ UNCHANGED <<CRYPTOPANIC_KEY, OPENAI_API_KEY, gemini_client,
                   TELEGRAM_BOT_TOKEN, TELEGRAM_CHAT_ID>>
    /\ UNCHANGED <<fetchVars, ipc, news_items, posted, img_bytes, ev, pubOk,
                   cycleOutcome, cycleExc, returned, lastPollSleep, markedThis,
                   markedPrev, history, lastCall, enriched>>

NextStartup == Startup

SpecStartup == InitStartup /\ [][NextStartup]_vars

(***************************************************************************)
(* Properties.                                                             *)
(***************************************************************************)
\* the handling of the article ev describes has ended
ArticleDone == mpc = "sleep" \/ (mpc = "items" /\ ipc = "next")

\* the identifier the feed article stands for: id, else uuid, else url
ArticleIdentifier(item) ==
    IF item.id # "" THEN item.id
    ELSE IF item.uuid # "" THEN item.uuid
    ELSE item.url

\* C1: once an article is done with, mark_seen was invoked for it if and only
\* if post_to_telegram returned a truthy value for it; after a failed publish
\* its id is not in the seen-set, after a successful one it is.
C1_MarkSeenIffPublished ==
    ArticleDone =>
        /\ ev.mark <=> (ev.post /\ Truthy(ev.res))
        /\ (ev.post /\ ~Truthy(ev.res)) => ev.nid \notin SeenSet
        /\ (ev.post /\ Truthy(ev.res)) => ev.nid \in SeenSet

\* C2: an article whose id was marked seen during the cycle before is not
\* enriched and not published in this cycle: no summarizer call, no image
\* call, no post_to_telegram call and no request to the chat API is made for it.
C2_DuplicateSuppression ==
    ev.nid \in markedPrev =>
        /\ ~ev.summarizer
        /\ ~ev.image
        /\ ~ev.post
        /\ ev.net = "none"
        /\ ~ev.mark
        /\ ipc = "next"

C2_Witness ==
    /\ mpc = "items"
    /\ ev.nid \in markedPrev
    /\ ev.skipped
    /\ markedThis # {}

\* C3: one call of fetch_news_with_backoff issues at most max_attempts
\* requests.get calls.
C3_AttemptsBounded == requests <= max_attempts

C3_Witness ==
    /\ fpc = "done"
    /\ max_attempts > DefaultMaxAttempts
    /\ requests = max_attempts
    /\ lastResp.status = 200
    /\ result # << >>

\* C4: the backoff value is 2 before the first request and stays within
\* [2, 300]; every sleep of the computed backoff lasts at most 300 seconds.
C4_BackoffWithinCeiling ==
    /\ backoff >= InitialBackoff
    /\ backoff <= BackoffCeiling
    /\ (fpc = "loop" /\ requests = 0) => backoff = InitialBackoff
    /\ (fpc = "loop" /\ nSleeps > 0 /\ lastResp.retry_after.kind # "int") =>
           (lastSleep >= InitialBackoff /\ lastSleep <= BackoffCeiling)

C4_Witness ==
    /\ backoff = BackoffCeiling
    /\ lastSleep = 256
    /\ fpc = "loop"
    /\ attempt < max_attempts

\* C5 as stated: after a 429 whose Retry-After header parses as an integer N,
\* the sleep before the next attempt lasted exactly N seconds, whatever N is.
C5_RetryAfterAnyInteger ==
    (lastResp.status = 429 /\ lastResp.retry_after.kind = "int") =>
        lastSleep = lastResp.retry_after.val

\* C5, amended: a 429 whose Retry-After header parses as an integer N >= 0 is
\* followed by one sleep of exactly N seconds (for N < 0 time.sleep raises and
\* the computed backoff is slept instead); every 429 consumes exactly one
\* attempt; a 429 with Retry-After 5 followed by a 200 with results makes
\* 2 requests, 1 sleep of 5 seconds and returns results[:limit].
C5_RetryAfterStep ==
    /\ (/\ requests' = requests + 1
        /\ lastResp'.status = 429
        /\ lastResp'.retry_after.kind = "int"
        /\ lastResp'.retry_after.val >= 0)
           => (/\ lastSleep' = lastResp'.retry_after.val
               /\ nSleeps' = nSleeps + 1)
    /\ (/\ requests' = requests + 1
        /\ lastResp'.status = 429
        /\ lastResp'.retry_after.kind = "int"
        /\ lastResp'.retry_after.val < 0)
           => (/\ lastSleep' = backoff
               /\ nSleeps' = nSleeps + 1)
    /\ (requests' = requests + 1 /\ lastResp'.status = 429)
           => (attempt' = attempt + 1 /\ fpc' = "loop")
    /\ (/\ requests = 1
        /\ lastResp.status = 429
        /\ lastResp.retry_after = [kind |-> "int", val |-> 5]
        /\ requests' = requests + 1
        /\ lastResp'.status = 200
        /\ lastResp'.body # "invalid"
        /\ lastResp'.results # << >>)
           => (/\ requests' = 2
               /\ nSleeps' = 1
               /\ lastSleep' = 5
               /\ fpc' = "done"
               /\ result' = Take(lastResp'.results, MAX_FETCH_LIMIT))

C5_RetryAfterPrecedence == [][C5_RetryAfterStep]_vars

C5_Witness ==
    /\ fpc = "done"
    /\ requests = 2
    /\ nSleeps = 1
    /\ lastSleep = 5
    /\ lastResp.status = 200
    /\ Len(lastResp.results) > MAX_FETCH_LIMIT
    /\ result = Take(lastResp.results, MAX_FETCH_LIMIT)

\* C6: a cycle of process_once always completes: when process_once is left,
\* it has returned (not raised), every article of the batch was visited and
\* the value returned is the number of successful publishes.  Stated for the
\* file backend, where is_seen and mark_seen cannot raise.
C6_CycleAlwaysCompletes ==
    (backend = "file" /\ mpc = "sleep") =>
        /\ cycleOutcome = "returned"
        /\ news_items = << >>
        /\ returned = pubOk

\* C7: an exception leaving process_once never ends the loop: whenever a cycle
\* is over, returned or raised, the next step is the sleep of POLL_SECONDS and
\* leads to the next call of process_once; and calls of process_once are made
\* infinitely often.
C7_SleepStep ==
    mpc = "sleep" => (mpc' = "call" /\ lastPollSleep' = POLL_SECONDS)

C7_LoopNeverStops ==
    /\ [][C7_SleepStep]_vars
    /\ []<>(mpc = "call")
    /\ []<>(mpc # "call")

C7_Witness ==
    /\ mpc = "call"
    /\ cycleOutcome = "raised"
    /\ lastPollSleep = POLL_SECONDS

MarkedOnce(seen, file, rset, id, o) ==
    IF backend = "file"
    THEN LET m == MarkSeenFile(seen, file, id, o)
         IN  [SEEN |-> m.SEEN, file |-> m.file, rset |-> rset]
    ELSE [SEEN |-> seen, file |-> file, rset |-> MarkSeenRedis(rset, id, o)]

C8_Idempotent ==
    \A id \in Ids, o \in MarkSeenOutcomes :
        LET once == MarkedOnce(SEEN, fileContent, redisSet, id, o)
            twice == MarkedOnce(once.SEEN, once.file, once.rset, id, o)
        IN  twice = once

C8_SeenAfterMark ==
    (lastCall.op = "mark_seen" /\ ~StoreRaises(lastCall.outcome)) =>
        IsSeen(lastCall.id)

C8_StaysSeen == \A id \in Ids : IsSeen(id) => IsSeen(id)'

C9_SkipStep ==
    (/\ mpc = "items"
     /\ ipc = "next"
     /\ news_items # << >>
     /\ LET nid == ArticleIdentifier(Head(news_items))
        IN  nid = "" \/ nid \in SeenSet)
        => (/\ ipc' = "next"
            /\ ~ev'.summarizer
            /\ ~ev'.image
            /\ ~ev'.post
            /\ ev'.net = "none"
            /\ ~ev'.mark
            /\ UNCHANGED <<storeVars, posted, pubOk, markedThis>>)

C9_SkipHasNoEffect == [][C9_SkipStep]_vars

C9_Witness ==
    /\ mpc = "items"
    /\ ev.skipped
    /\ ev.nid \in SeenSet
    /\ ev.nid \in markedThis
    /\ posted = 1

\* C10: post_to_telegram reports success exactly for the 2xx responses of the
\* chat API, failure for every other response and every transport exception,
\* and without both credentials it fails without a request.
C10_PublishResult ==
    ev.post =>
        IF TELEGRAM_BOT_TOKEN /\ TELEGRAM_CHAT_ID
        THEN Truthy(ev.res) <=>
                 (ev.resp.kind = "http" /\ ev.resp.status >= 200 /\ ev.resp.status < 300)
        ELSE ~Truthy(ev.res) /\ ev.net = "none"

\* C11: with the file backend the seen-set survives a restart: every id in the
\* set before the process is terminated (loaded at startup or marked since) is
\* in the set loaded by the restart; and an absent or corrupt file makes the
\* process start from the empty set.
C11_RestartStep ==
    (backend = "file" /\ lastCall'.op = "restart") =>
        /\ SEEN \subseteq SEEN'
        /\ fileContent.state # "list" => SEEN' = {}

C11_SeenSurvivesRestart == [][C11_RestartStep]_vars

\* C12: for every response text of the summarizer that is not valid JSON and
\* holds no {...} substring that parses, the enrichment process_once works
\* with has a non-empty summary, a caption of at most 120 characters and a
\* non-null image prompt.
C12_FallbackComplete ==
    (/\ enriched.op = "enrich"
     /\ OPENAI_API_KEY
     /\ enriched.outcome \in {"plain_text", "empty_text", "wrapped_garbage"})
        => (/\ ~enriched.raised
            /\ enriched.summary > 0
            /\ enriched.caption <= CaptionMax
            /\ enriched.image_prompt # "null")

\* C13: for every configuration the module level binds is_seen/mark_seen to
\* exactly one backend: to redis when REDIS_URL is set, the library is there
\* and the client is created, and to the local file in every other case.
C13_StartupStep ==
    (mpc = "import" /\ mpc' = "call") =>
        /\ backend' \in {"redis", "file"}
        /\ backend' = "redis" <=>
               (startup.REDIS_URL /\ startup.redis /\ startup.from_url = "ok")

C13_OneBackendBound == [][C13_StartupStep]_vars

\* C14: fetch_news_with_backoff always terminates, for every max_attempts and
\* every sequence of responses: the call returns; it never makes more than
\* max_attempts failed attempts; and when every request of the call failed
\* with a transient failure, it returns the empty list after exactly
\* max_attempts attempts.
C14_FetchTerminates ==
    /\ <>(fpc = "done")
    /\ [](attempt <= max_attempts /\ nSleeps <= max_attempts)
    /\ []((fpc = "done" /\ CRYPTOPANIC_KEY /\ attempt = requests) =>
              (/\ requests = max_attempts
               /\ nSleeps = max_attempts
               /\ result = << >>))

C14_Witness ==
    /\ fpc = "done"
    /\ max_attempts = DefaultMaxAttempts
    /\ attempt = max_attempts
    /\ requests = max_attempts
    /\ lastResp.status = 503
    /\ result = << >>

\* C15: on an HTTP error status other than 429 and 5xx the call aborts at
\* once, whatever attempt and backoff are: it returns the empty list, sleeps
\* no more and makes no further request.
C15_AbortStep ==
    /\ (/\ requests' = requests + 1
        /\ lastResp'.kind = "http"
        /\ lastResp'.status >= 400
        /\ lastResp'.status < 500
        /\ lastResp'.status # 429)
           => (/\ fpc' = "done"
               /\ result' = << >>
               /\ UNCHANGED <<nSleeps, lastSleep, attempt, backoff>>)
    /\ fpc = "done" => UNCHANGED <<requests, nSleeps, result>>

C15_AbortOnOtherStatus == [][C15_AbortStep]_vars

C15_Witness ==
    /\ fpc = "done"
    /\ lastResp.status = 404
    /\ requests = 4
    /\ attempt = 3
    /\ nSleeps = 3
    /\ backoff = 16
    /\ result = << >>

\* C16: a 5xx response, a transport exception and a 429 without Retry-After
\* all take the same backoff-and-retry step: sleep the current backoff, count
\* one attempt, set backoff to min(300, 2 * backoff); so after k failures in a
\* row the backoff is min(300, 2^(k+1)).
C16_TransientFailure(resp) ==
    \/ resp.kind = "exc"
    \/ resp.kind = "http" /\ resp.status >= 500 /\ resp.status < 600
    \/ resp.kind = "http" /\ resp.status = 429 /\ resp.retry_after.kind = "absent"

C16_RetryStep ==
    (requests' = requests + 1 /\ C16_TransientFailure(lastResp')) =>
        /\ fpc' = "loop"
        /\ lastSleep' = backoff
        /\ nSleeps' = nSleeps + 1
        /\ attempt' = attempt + 1
        /\ backoff' = (IF 2 * backoff < 300 THEN 2 * backoff ELSE 300)

C16_BackoffAfterFailures ==
    fpc = "loop" =>
        backoff = (IF 2^(attempt + 1) < 300 THEN 2^(attempt + 1) ELSE 300)

C16_SameRetryStep == [][C16_RetryStep]_vars /\ []C16_BackoffAfterFailures

C16_Witness ==
    /\ fpc = "loop"
    /\ attempt = 8
    /\ backoff = 300
    /\ lastSleep = 256
    /\ lastResp.status = 500

\* C17: an article whose publish failed in an earlier cycle is enriched and
\* published again in every later cycle whose batch contains it, until a
\* publish of it succeeds: when a cycle is over, no article of its batch was
\* left unvisited whose last publish failed in an earlier cycle.
C17_RetriedInLaterCycles ==
    mpc = "sleep" =>
        \A i \in 1..Len(news_items) :
            LET nid == ArticleIdentifier(news_items[i])
            IN  (nid \in Ids /\ (i > 1 \/ ~ev.post)) =>
                    history[nid] # "failed_before"

\* C18: with the file backend, a mark_seen whose file write fails (the file
\* does not hold the set afterwards) does not raise into the cycle and keeps
\* the mark in memory: the id is in SEEN, the published count is incremented
\* and the cycle goes on; and an id in SEEN stays there, so is_seen(id) stays
\* true for the rest of the process lifetime.
C18_FailedWriteStep ==
    /\ (/\ backend = "file"
        /\ mpc = "items"
        /\ ipc = "mark"
        /\ fileContent' # FileOf(SEEN'))
           => (/\ ev.nid \in SEEN'
               /\ IsSeenFile(SEEN', ev.nid)
               /\ posted' = posted + 1
               /\ mpc' = "items"
               /\ ipc' = "next"
               /\ cycleOutcome' = "running"
               /\ cycleExc' = "none")
    /\ backend = "file" => \A id \in SEEN : IsSeenFile(SEEN', id)

C18_MemoryAuthoritative == [][C18_FailedWriteStep]_vars

C18_Witness ==
    /\ backend = "file"
    /\ mpc = "items"
    /\ ev.skipped
    /\ markedThis = {ev.nid}
    /\ posted = 1
    /\ fileContent # FileOf(SEEN)
    /\ ev.nid \in SEEN

\* C19: the count a cycle returns is the number of publishes of the cycle for
\* which post_to_telegram returned a truthy value, and the number of ids the
\* cycle added to the seen-set (each mark_seen of the cycle adds an id that
\* was not in the set, also when the batch lists an id twice); an empty fetch
\* result ends the cycle with count 0 and the seen-set untouched.
C19_Returned ==
    (mpc = "sleep" /\ cycleOutcome = "returned") =>
        /\ returned = pubOk
        /\ returned = Cardinality(markedThis)
        /\ markedThis \subseteq SeenSet

C19_CountStep ==
    /\ SeenSet' \ SeenSet = markedThis' \ markedThis
    /\ (mpc \in {"call", "fetch"} /\ mpc' = "sleep") =>
           (/\ cycleOutcome' = "returned"
            /\ returned' = 0
            /\ UNCHANGED storeVars)

C19_CountMatches == []C19_Returned /\ [][C19_CountStep]_vars

C19_Witness ==
    /\ mpc = "sleep"
    /\ cycleOutcome = "returned"
    /\ returned = 1
    /\ pubOk = 1
    /\ ev.skipped
    /\ ev.nid \in markedThis

\* C20: within one process lifetime with the file backend no id has more than
\* one successful publish (post_to_telegram returning a truthy value): a
\* publish never succeeds for an id that was published before, whatever the
\* feed returns, also when a batch lists the id twice or earlier publishes of
\* it failed.
C20_PublishStep ==
    (backend = "file" /\ ipc = "publish" /\ ipc' = "mark") =>
        /\ history[ev.nid] # "published"
        /\ history'[ev.nid] = "published"
        /\ ev.nid \notin SEEN

C20_Published ==
    backend = "file" =>
        \A id \in Ids :
            history[id] = "published" => (id \in SEEN \/ (ipc = "mark" /\ ev.nid = id))

C20_AtMostOncePublished == [][C20_PublishStep]_vars /\ []C20_Published

C20_Witness ==
    /\ backend = "file"
    /\ mpc = "items"
    /\ lastPollSleep = POLL_SECONDS
    /\ ev.skipped
    /\ ev.nid \in markedThis
    /\ history[ev.nid] = "published"
    /\ \E id \in Ids : history[id] = "failed_before"

====
